---- MODULE Spec2Model ----
(***************************************************************************)
(* A model of finance_mcp_server.py: five tool handlers (get_alerts,       *)
(* get_forecast, get_stock_quote, get_stock_performance, get_volatility)   *)
(* that each call an upstream REST API and reshape the JSON answer into a  *)
(* result string.                                                          *)
(*                                                                         *)
(* Conventions.                                                            *)
(*  - A Python str is a sequence of one-character strings, so prefixes,    *)
(*    joins and str.upper() are computed character by character.  The      *)
(*    token "deg" stands for the single character U+00B0.                  *)
(*  - A JSON value (and the Python value json() parses it to) is a record  *)
(*    tagged t = "null", "str", "num", "list" or "obj" that holds its      *)
(*    content in the field s, n, xs or f; Python None is JNull.  An object *)
(*    is a function from its keys, so an absent key is a key outside its   *)
(*    DOMAIN and is distinct from a key holding null.                      *)
(*  - A handler's outcome is Ret(text) or Raise(exception name).           *)
(*  - A handler is an async function: it runs atomically from one await    *)
(*    to the next, so each handler has an Invoke action (up to the first   *)
(*    outbound call) and one Resume action per awaited response.           *)
(***************************************************************************)
EXTENDS Integers, Sequences, FiniteSets, TLC

VARIABLES
    twelve_data_api_key,  \* the module-level global read by the finance handlers
    pc,        \* pc[i]: "idle", "await_alerts", "await_point", "await_forecast",
               \*        "await_quote", "await_perf", "await_vol" or "done"
    tool,      \* tool[i]: the handler invocation i runs ("none" while idle)
    args,      \* args[i]: the arguments invocation i was called with
    calls,     \* calls[i]: the outbound requests invocation i has issued, in order
    resps,     \* resps[i]: the upstream answers invocation i has received, in order
    result,    \* result[i]: NoResult until the handler ends, then Ret or Raise
    computed   \* computed[i]: the handler reached its float() conversions

vars == <<twelve_data_api_key, pc, tool, args, calls, resps, result, computed>>

(***************************************************************************)
(* Bounds of the model.                                                    *)
(***************************************************************************)
NInv == 2          \* invocation slots
MaxFeatures == 2   \* longest "features" list drawn from the sampled features
MaxPeriods == 6    \* longest "periods" list (above the handler's cut of 5)
MaxBars == 4       \* longest "values" list
MaxDays == 4       \* largest days argument (the smallest is -1)

Inv == 1 .. NInv

(***************************************************************************)
(* Text literals of the source.                                            *)
(***************************************************************************)
NWS_API_BASE ==
    <<"h", "t", "t", "p", "s", ":", "/", "/", "a", "p", "i", ".", "w", "e", "a", "t", "h", "e",
      "r", ".", "g", "o", "v">>
ALERTS_PATH ==
    <<"/", "a", "l", "e", "r", "t", "s", "/", "a", "c", "t", "i", "v", "e", "/", "a", "r", "e",
      "a", "/">>
POINTS_PATH == <<"/", "p", "o", "i", "n", "t", "s", "/">>
QUOTE_URL ==
    <<"h", "t", "t", "p", "s", ":", "/", "/", "a", "p", "i", ".", "t", "w", "e", "l", "v", "e",
      "d", "a", "t", "a", ".", "c", "o", "m", "/", "q", "u", "o", "t", "e">>
TIME_SERIES_URL ==
    <<"h", "t", "t", "p", "s", ":", "/", "/", "a", "p", "i", ".", "t", "w", "e", "l", "v", "e",
      "d", "a", "t", "a", ".", "c", "o", "m", "/", "t", "i", "m", "e", "_", "s", "e", "r", "i",
      "e", "s">>
INTERVAL_1DAY == <<"1", "d", "a", "y">>
UNABLE_ALERTS ==
    <<"U", "n", "a", "b", "l", "e", " ", "t", "o", " ", "f", "e", "t", "c", "h", " ", "a", "l",
      "e", "r", "t", "s", " ", "o", "r", " ", "n", "o", " ", "a", "l", "e", "r", "t", "s", ".">>
NO_ACTIVE_ALERTS ==
    <<"N", "o", " ", "a", "c", "t", "i", "v", "e", " ", "a", "l", "e", "r", "t", "s", ".">>
UNABLE_POINT ==
    <<"U", "n", "a", "b", "l", "e", " ", "t", "o", " ", "f", "e", "t", "c", "h", " ", "p", "o",
      "i", "n", "t", " ", "d", "a", "t", "a", ".">>
UNABLE_FORECAST ==
    <<"U", "n", "a", "b", "l", "e", " ", "t", "o", " ", "f", "e", "t", "c", "h", " ", "f", "o",
      "r", "e", "c", "a", "s", "t", ".">>
INSUFFICIENT_DATA ==
    <<"I", "n", "s", "u", "f", "f", "i", "c", "i", "e", "n", "t", " ", "d", "a", "t", "a", ".">>
SEPARATOR == <<"\n", "-", "-", "-", "\n">>
LBL_EVENT == <<"\n", "E", "v", "e", "n", "t", ":", " ">>
LBL_AREA == <<"\n", "A", "r", "e", "a", ":", " ">>
LBL_SEVERITY == <<"\n", "S", "e", "v", "e", "r", "i", "t", "y", ":", " ">>
LBL_DESCRIPTION == <<"\n", "D", "e", "s", "c", "r", "i", "p", "t", "i", "o", "n", ":", " ">>
LBL_INSTRUCTIONS == <<"\n", "I", "n", "s", "t", "r", "u", "c", "t", "i", "o", "n", "s", ":", " ">>
UNKNOWN == <<"U", "n", "k", "n", "o", "w", "n">>
NO_DESCRIPTION ==
    <<"N", "o", " ", "d", "e", "s", "c", "r", "i", "p", "t", "i", "o", "n", " ", "a", "v", "a",
      "i", "l", "a", "b", "l", "e">>
NO_INSTRUCTIONS ==
    <<"N", "o", " ", "s", "p", "e", "c", "i", "f", "i", "c", " ", "i", "n", "s", "t", "r", "u",
      "c", "t", "i", "o", "n", "s">>
NOT_AVAILABLE == <<"N", "/", "A">>
PY_NONE == <<"N", "o", "n", "e">>
ERROR_PREFIX == <<"E", "r", "r", "o", "r", ":", " ">>
ERROR_COLON == <<"E", "r", "r", "o", "r", ":">>
T_COLON_DOLLAR == <<":", " ", "$">>
T_PCT_OPEN == <<" ", "(">>
T_PCT_CLOSE == <<"%", ")", ",", " ">>
T_VOL == <<"V", "o", "l", ":", " ">>
T_HL == <<",", " ", "H", "/", "L", ":", " ">>
T_CHANGED == <<" ", "c", "h", "a", "n", "g", "e", "d", " ">>
T_OVER == <<"%", " ", "o", "v", "e", "r", " ">>
T_D_HIGH == <<"d", ".", " ", "H", "i", "g", "h", ":", " ">>
T_LOW == <<",", " ", "L", "o", "w", ":", " ">>
T_TREND == <<" ", "t", "r", "e", "n", "d", ":", " ">>
T_VOLATILITY == <<",", " ", "v", "o", "l", "a", "t", "i", "l", "i", "t", "y", ":", " ">>
UPWARD == <<"u", "p", "w", "a", "r", "d">>
DOWNWARD == <<"d", "o", "w", "n", "w", "a", "r", "d">>
T_WIND == <<",", " ", "W", "i", "n", "d", " ">>
LOWER ==
    <<"a", "b", "c", "d", "e", "f", "g", "h", "i", "j", "k", "l", "m", "n", "o", "p", "q", "r",
      "s", "t", "u", "v", "w", "x", "y", "z">>
UPPER ==
    <<"A", "B", "C", "D", "E", "F", "G", "H", "I", "J", "K", "L", "M", "N", "O", "P", "Q", "R",
      "S", "T", "U", "V", "W", "X", "Y", "Z">>
DIGITS == <<"0", "1", "2", "3", "4", "5", "6", "7", "8", "9">>
NEWLINE == <<"\n">>
T_DEG == <<"deg">>
T_COMMA == <<",">>
T_COLON_SPACE == <<":", " ">>
T_COMMA_SPACE == <<",", " ">>
T_SPACE == <<" ">>
T_SLASH == <<"/">>
T_MINUS == <<"-">>
T_DOT == <<".">>
T_DOT_ZERO == <<".", "0">>

(***************************************************************************)
(* Python str operations.                                                  *)
(***************************************************************************)
StartsWith(s, p) == Len(p) <= Len(s) /\ SubSeq(s, 1, Len(p)) = p

UpperChar(c) ==
    IF \E k \in 1 .. Len(LOWER) : LOWER[k] = c
    THEN UPPER[CHOOSE k \in 1 .. Len(LOWER) : LOWER[k] = c]
    ELSE c

Upper(s) == [k \in 1 .. Len(s) |-> UpperChar(s[k])]

RECURSIVE Join(_, _)
Join(sep, parts) ==
    IF parts = <<>> THEN <<>>
    ELSE IF Len(parts) = 1 THEN parts[1]
    ELSE parts[1] \o sep \o Join(sep, Tail(parts))

RECURSIVE NatStr(_)
NatStr(n) ==
    IF n < 10 THEN <<DIGITS[n + 1]>>
    ELSE NatStr(n \div 10) \o <<DIGITS[(n % 10) + 1]>>

IntStr(n) == IF n < 0 THEN T_MINUS \o NatStr(-n) ELSE NatStr(n)

\* repr() of a float holding the integer n, as an f-string renders it: "3.0"
FloatRepr(n) == IntStr(n) \o T_DOT_ZERO

\* a/b rounded to the nearest integer, ties to even, for a >= 0 and b > 0
RoundNat(a, b) ==
    LET q == a \div b
        r == a % b
    IN  IF 2 * r < b THEN q
        ELSE IF 2 * r > b THEN q + 1
        ELSE IF q % 2 = 0 THEN q ELSE q + 1

\* format(x, ".2f") of the value neg * h / 100, h >= 0 the rounded hundredths;
\* a negative value that rounds to zero keeps its sign ("-0.00")
Fixed2(neg, h) ==
    (IF neg THEN T_MINUS ELSE <<>>)
        \o NatStr(h \div 100) \o T_DOT
        \o <<DIGITS[((h % 100) \div 10) + 1], DIGITS[(h % 10) + 1]>>

(***************************************************************************)
(* JSON values and the Python operations the handlers apply to them.       *)
(***************************************************************************)
JNull == [t |-> "null"]
JStr(s) == [t |-> "str", s |-> s]
JNum(n) == [t |-> "num", n |-> n]
JList(xs) == [t |-> "list", xs |-> xs]
JObj(f) == [t |-> "obj", f |-> f]

None == JNull

\* bool(x)
Truthy(x) ==
    CASE x.t = "null" -> FALSE
      [] x.t = "str" -> x.s # <<>>
      [] x.t = "num" -> x.n # 0
      [] x.t = "list" -> x.xs # <<>>
      [] x.t = "obj" -> DOMAIN x.f # {}

\* key in d, for a dict d
HasKey(d, key) == d.t = "obj" /\ key \in DOMAIN d.f

\* d.get(key, default)
Get(d, key, default) == IF key \in DOMAIN d.f THEN d.f[key] ELSE default

\* str(x) as an f-string field renders a scalar
PyStr(x) ==
    CASE x.t = "null" -> PY_NONE
      [] x.t = "str" -> x.s
      [] x.t = "num" -> IntStr(x.n)

IsDigits(s) == s # <<>> /\ \A k \in 1 .. Len(s) : \E d \in 1 .. 10 : DIGITS[d] = s[k]

RECURSIVE ParseNat(_)
ParseNat(s) ==
    IF s = <<>> THEN 0
    ELSE 10 * ParseNat(SubSeq(s, 1, Len(s) - 1))
             + (CHOOSE d \in 0 .. 9 : DIGITS[d + 1] = s[Len(s)])

\* float(x): the number, or the exception float() raises
Float(x) ==
    CASE x.t = "num" -> [ok |-> TRUE, val |-> x.n]
      [] x.t = "str" /\ IsDigits(x.s) -> [ok |-> TRUE, val |-> ParseNat(x.s)]
      [] x.t = "str" /\ ~IsDigits(x.s) -> [ok |-> FALSE, exc |-> "ValueError"]
      [] OTHER -> [ok |-> FALSE, exc |-> "TypeError"]

Ret(text) == [kind |-> "return", value |-> text]
Raise(e) == [kind |-> "raise", exc |-> e]
NoResult == [kind |-> "none"]

(***************************************************************************)
(* What one outbound GET can come back with: the client raising (no        *)
(* connection, timeout), or an HTTP answer with a status and a body that   *)
(* either parses as JSON or does not.                                      *)
(***************************************************************************)
TransportError == [kind |-> "transport", status |-> 0, json |-> FALSE, body |-> JNull]
HttpJson(status, j) == [kind |-> "http", status |-> status, json |-> TRUE, body |-> j]
HttpGarbage(status) == [kind |-> "http", status |-> status, json |-> FALSE, body |-> JNull]

\* r.raise_for_status() raises
IsErrorStatus(status) == status >= 400

\* make_nws_request: every exception inside the try becomes None
make_nws_request(w) ==
    IF w.kind = "transport" THEN None
    ELSE IF IsErrorStatus(w.status) THEN None
    ELSE IF ~w.json THEN None
    ELSE w.body

\* (await client.get(url, params=params)).json() of the finance handlers: no try,
\* no raise_for_status, so the status is ignored and both exceptions propagate
finance_json(w) ==
    IF w.kind = "transport" THEN [ok |-> FALSE, exc |-> "ConnectError"]
    ELSE IF ~w.json THEN [ok |-> FALSE, exc |-> "JSONDecodeError"]
    ELSE [ok |-> TRUE, val |-> w.body]

\* a call failed: the client raised, the status was refused or the body did not parse
NwsCallFailed(w) == w.kind = "transport" \/ IsErrorStatus(w.status) \/ ~w.json
FinanceCallFailed(w) == w.kind = "transport" \/ ~w.json

(***************************************************************************)
(* Weather handlers.                                                       *)
(***************************************************************************)
\* format_alert with the fault of calling props.get('instruction') without its default
format_alert_nodefault(feature) ==
    IF ~HasKey(feature, "properties") THEN Raise("KeyError")
    ELSE LET props == feature.f["properties"]
         IN  Ret(LBL_EVENT \o PyStr(Get(props, "event", JStr(UNKNOWN)))
                 \o LBL_AREA \o PyStr(Get(props, "areaDesc", JStr(UNKNOWN)))
                 \o LBL_SEVERITY \o PyStr(Get(props, "severity", JStr(UNKNOWN)))
                 \o LBL_DESCRIPTION \o PyStr(Get(props, "description", JStr(NO_DESCRIPTION)))
                 \o LBL_INSTRUCTIONS \o PyStr(Get(props, "instruction", None))
                 \o NEWLINE)

format_alert(feature) ==
    IF ~HasKey(feature, "properties") THEN Raise("KeyError")
    ELSE LET props == feature.f["properties"]
         IN  Ret(LBL_EVENT \o PyStr(Get(props, "event", JStr(UNKNOWN)))
                 \o LBL_AREA \o PyStr(Get(props, "areaDesc", JStr(UNKNOWN)))
                 \o LBL_SEVERITY \o PyStr(Get(props, "severity", JStr(UNKNOWN)))
                 \o LBL_DESCRIPTION \o PyStr(Get(props, "description", JStr(NO_DESCRIPTION)))
                 \o LBL_INSTRUCTIONS \o PyStr(Get(props, "instruction", JStr(NO_INSTRUCTIONS)))
                 \o NEWLINE)

\* sep.join(f(x) for x in xs): the first element whose formatting raises ends the join
JoinResults(rs) ==
    IF \E k \in 1 .. Len(rs) : rs[k].kind = "raise"
    THEN rs[CHOOSE k \in 1 .. Len(rs) :
                /\ rs[k].kind = "raise"
                /\ \A j \in 1 .. k - 1 : rs[j].kind = "return"]
    ELSE Ret(Join(SEPARATOR, [k \in 1 .. Len(rs) |-> rs[k].value]))

alerts_url(state) == NWS_API_BASE \o ALERTS_PATH \o Upper(state)

\* get_alerts from the answer of make_nws_request on
get_alerts_result(data) ==
    IF ~Truthy(data) \/ ~HasKey(data, "features") THEN Ret(UNABLE_ALERTS)
    ELSE LET features == data.f["features"]
         IN  IF ~Truthy(features) THEN Ret(NO_ACTIVE_ALERTS)
             ELSE JoinResults([k \in 1 .. Len(features.xs) |-> format_alert(features.xs[k])])

point_url(latitude, longitude) ==
    NWS_API_BASE \o POINTS_PATH \o FloatRepr(latitude) \o T_COMMA \o FloatRepr(longitude)

\* get_forecast_point with the fault of not returning on a failed point fetch:
\* it goes on to fetch the API base
get_forecast_point_fallthrough(pt) ==
    IF ~Truthy(pt) THEN [done |-> FALSE, forecast_url |-> NWS_API_BASE]
    ELSE IF ~HasKey(pt, "properties") THEN [done |-> TRUE, result |-> Raise("KeyError")]
    ELSE IF ~HasKey(pt.f["properties"], "forecast")
         THEN [done |-> TRUE, result |-> Raise("KeyError")]
    ELSE [done |-> FALSE, forecast_url |-> PyStr(pt.f["properties"].f["forecast"])]

\* get_forecast between its two awaits: ends the handler, or names the second URL
get_forecast_point(pt) ==
    IF ~Truthy(pt) THEN [done |-> TRUE, result |-> Ret(UNABLE_POINT)]
    ELSE IF ~HasKey(pt, "properties") THEN [done |-> TRUE, result |-> Raise("KeyError")]
    ELSE IF ~HasKey(pt.f["properties"], "forecast")
         THEN [done |-> TRUE, result |-> Raise("KeyError")]
    ELSE [done |-> FALSE, forecast_url |-> PyStr(pt.f["properties"].f["forecast"])]

PeriodKeys ==
    <<"name", "temperature", "temperatureUnit", "windSpeed", "windDirection",
      "detailedForecast">>

format_period(p) ==
    IF \E k \in 1 .. Len(PeriodKeys) : ~HasKey(p, PeriodKeys[k]) THEN Raise("KeyError")
    ELSE Ret(PyStr(p.f["name"]) \o T_COLON_SPACE \o PyStr(p.f["temperature"]) \o T_DEG
             \o PyStr(p.f["temperatureUnit"]) \o T_WIND \o PyStr(p.f["windSpeed"])
             \o T_SPACE \o PyStr(p.f["windDirection"]) \o T_COMMA_SPACE
             \o PyStr(p.f["detailedForecast"]))

\* periods[:5]
FirstPeriods(periods) ==
    SubSeq(periods, 1, IF Len(periods) < 5 THEN Len(periods) ELSE 5)

\* get_forecast from the answer of the second make_nws_request on
get_forecast_result(fx) ==
    IF ~Truthy(fx) THEN Ret(UNABLE_FORECAST)
    ELSE IF ~HasKey(fx, "properties") THEN Raise("KeyError")
    ELSE IF ~HasKey(fx.f["properties"], "periods") THEN Raise("KeyError")
    ELSE LET periods == fx.f["properties"].f["periods"].xs
             shown == FirstPeriods(periods)
         IN  JoinResults([k \in 1 .. Len(shown) |-> format_period(shown[k])])

(***************************************************************************)
(* Finance handlers.                                                       *)
(***************************************************************************)
quote_params(symbol, key) == [symbol |-> Upper(symbol), apikey |-> key]

series_params(symbol, days, key) ==
    [symbol |-> Upper(symbol), interval |-> INTERVAL_1DAY, outputsize |-> days,
     apikey |-> key]

\* the fault of testing the presence of "close" instead of its truth value
QuoteHasClose_keyonly(data) == HasKey(data, "close")

\* if data.get("close"):
QuoteHasClose(data) == Truthy(Get(data, "close", None))

\* get_stock_quote from the parsed payload on
get_stock_quote_result(symbol, data) ==
    IF QuoteHasClose(data)
    THEN Ret(Upper(symbol) \o T_COLON_DOLLAR \o PyStr(data.f["close"])
             \o T_PCT_OPEN \o PyStr(Get(data, "percent_change", JStr(NOT_AVAILABLE)))
             \o T_PCT_CLOSE \o T_VOL \o PyStr(Get(data, "volume", JStr(NOT_AVAILABLE)))
             \o T_HL \o PyStr(Get(data, "high", JStr(NOT_AVAILABLE)))
             \o T_SLASH \o PyStr(Get(data, "low", JStr(NOT_AVAILABLE))))
    ELSE Ret(ERROR_PREFIX \o PyStr(Get(data, "message", JStr(UNKNOWN))))

\* data.get("values", [])
SeriesValues(data) == Get(data, "values", JList(<<>>)).xs

\* the fault of an off-by-one length check
Insufficient_offbyone(vals, days) == Len(vals) + 1 < days

\* if len(vals) < days:
Insufficient(vals, days) == Len(vals) < days

\* [float(v[key]) for v in vals]: the floats, or the exception of the first bar
\* that lacks the key or whose value float() refuses
FloatsOf(vals, key) ==
    LET one(v) == IF ~HasKey(v, key) THEN [ok |-> FALSE, exc |-> "KeyError"]
                  ELSE Float(v.f[key])
        bad == {k \in 1 .. Len(vals) : ~one(vals[k]).ok}
    IN  IF bad # {}
        THEN [ok |-> FALSE, exc |-> one(vals[CHOOSE k \in bad : \A j \in bad : k <= j]).exc]
        ELSE [ok |-> TRUE, val |-> [k \in 1 .. Len(vals) |-> one(vals[k]).val]]

SeqMax(xs) == CHOOSE m \in {xs[k] : k \in 1 .. Len(xs)} : \A k \in 1 .. Len(xs) : xs[k] <= m
SeqMin(xs) == CHOOSE m \in {xs[k] : k \in 1 .. Len(xs)} : \A k \in 1 .. Len(xs) : m <= xs[k]

RECURSIVE SeqSum(_)
SeqSum(xs) == IF xs = <<>> THEN 0 ELSE Head(xs) + SeqSum(Tail(xs))

\* f"{pct:.2f}" for pct = (newest - oldest) / oldest * 100, oldest > 0
PctText(newest, oldest) ==
    IF newest >= oldest
    THEN Fixed2(FALSE, RoundNat(10000 * (newest - oldest), oldest))
    ELSE Fixed2(TRUE, RoundNat(10000 * (oldest - newest), oldest))

\* get_stock_performance from the parsed payload on; computed tells whether the
\* handler went past its length check into the float() conversions
get_stock_performance_result(symbol, days, data) ==
    LET vals == SeriesValues(data)
        closes == FloatsOf(vals, "close")
        highs == FloatsOf(vals, "high")
        lows == FloatsOf(vals, "low")
        out(r) == [result |-> r, computed |-> TRUE]
    IN  IF Insufficient(vals, days)
        THEN [result |-> Ret(INSUFFICIENT_DATA), computed |-> FALSE]
        ELSE IF ~closes.ok THEN out(Raise(closes.exc))
        ELSE IF closes.val = <<>> THEN out(Raise("IndexError"))
        ELSE IF closes.val[Len(closes.val)] = 0 THEN out(Raise("ZeroDivisionError"))
        ELSE IF ~highs.ok THEN out(Raise(highs.exc))
        ELSE IF ~lows.ok THEN out(Raise(lows.exc))
        ELSE out(Ret(Upper(symbol) \o T_CHANGED
                     \o PctText(closes.val[1], closes.val[Len(closes.val)])
                     \o T_OVER \o IntStr(days) \o T_D_HIGH \o FloatRepr(SeqMax(highs.val))
                     \o T_LOW \o FloatRepr(SeqMin(lows.val))))

\* statistics.pstdev(closes) in rounded hundredths, for a non-empty series:
\* sqrt(Q) / N with Q = N * sum(x^2) - sum(x)^2
PstdevHundredths(closes) ==
    LET N == Len(closes)
        Q == N * SeqSum([k \in 1 .. N |-> closes[k] * closes[k]])
                 - SeqSum(closes) * SeqSum(closes)
    IN  CHOOSE s \in 0 .. 100 * SeqMax(closes) :
            /\ s = 0 \/ (2 * s - 1) * (2 * s - 1) * N * N <= 40000 * Q
            /\ 40000 * Q < (2 * s + 1) * (2 * s + 1) * N * N

\* the fault of comparing with >=, which labels a tie "upward"
Trend_ge(closes) == IF closes[1] >= closes[Len(closes)] THEN UPWARD ELSE DOWNWARD

\* "upward" if closes[0] > closes[-1] else "downward"
Trend(closes) == IF closes[1] > closes[Len(closes)] THEN UPWARD ELSE DOWNWARD

\* get_volatility from the parsed payload on
get_volatility_result(symbol, days, data) ==
    LET vals == SeriesValues(data)
        closes == FloatsOf(vals, "close")
        out(r) == [result |-> r, computed |-> TRUE]
    IN  IF Insufficient(vals, days)
        THEN [result |-> Ret(INSUFFICIENT_DATA), computed |-> FALSE]
        ELSE IF ~closes.ok THEN out(Raise(closes.exc))
        ELSE IF closes.val = <<>> THEN out(Raise("StatisticsError"))
        ELSE out(Ret(Upper(symbol) \o T_TREND \o Trend(closes.val) \o T_VOLATILITY
                     \o Fixed2(FALSE, PstdevHundredths(closes.val))))

(***************************************************************************)
(* The inputs the model draws: arguments a caller may pass and answers the *)
(* upstream may give.  Objects whose expected fields are missing are part  *)
(* of the domain; a field that is present holds a value of the JSON type   *)
(* the handler expects (a list for features, periods and values, an        *)
(* object for properties), scalars include null.                           *)
(***************************************************************************)
SeqsUpTo(S, n) == UNION {[1 .. k -> S] : k \in 0 .. n}

EmptyObj == JObj(<<>>)
TX == JStr(<<"x">>)
TY == JStr(<<"y">>)

AlertFields == {"event", "areaDesc", "severity", "description", "instruction"}

\* every feature over the five fields, each absent, null or a text; and one
\* feature without "properties"
AllFeatures ==
    {EmptyObj} \cup
    {JObj("properties" :> JObj(p)) :
        p \in UNION {[D -> {JNull, TX}] : D \in SUBSET AlertFields}}

FeatureFull ==
    JObj("properties" :> JObj([k \in AlertFields |-> IF k = "event" THEN TY ELSE TX]))
FeatureBare == JObj("properties" :> EmptyObj)
FeatureSample == {FeatureFull, FeatureBare, EmptyObj}

FeatureLists ==
    {<<f>> : f \in AllFeatures} \cup SeqsUpTo(FeatureSample, MaxFeatures)

AlertBodies ==
    {EmptyObj, JObj("title" :> TX)} \cup {JObj("features" :> JList(fs)) : fs \in FeatureLists}

ForecastUrls == {<<"u">>, <<"v">>}

PointBodies ==
    {EmptyObj, JObj("title" :> TX), JObj("properties" :> EmptyObj)}
    \cup {JObj("properties" :> JObj("forecast" :> JStr(u))) : u \in ForecastUrls}

Period(name) ==
    JObj([k \in {PeriodKeys[n] : n \in 1 .. Len(PeriodKeys)} |->
            IF k = "name" THEN name
            ELSE IF k = "temperature" THEN JNum(65)
            ELSE TX])
PeriodNoForecast(name) ==
    JObj([k \in {PeriodKeys[n] : n \in 1 .. Len(PeriodKeys) - 1} |->
            IF k = "name" THEN name
            ELSE IF k = "temperature" THEN JNum(65)
            ELSE TX])
PeriodSample == {Period(TX), Period(TY), PeriodNoForecast(TX)}

ForecastBodies ==
    {EmptyObj, JObj("title" :> TX), JObj("properties" :> EmptyObj)}
    \cup {JObj("properties" :> JObj("periods" :> JList(ps))) :
            ps \in SeqsUpTo(PeriodSample, MaxPeriods)}

CloseOpts ==
    {<<>>} \cup {"close" :> c : c \in {JNull, JNum(0), JNum(5), JStr(<<>>), JStr(<<"0">>)}}
MessageOpts == {<<>>, "message" :> JStr(<<"b", "a", "d">>)}
ExtraOpts ==
    {<<>>, "percent_change" :> TX, "volume" :> JNum(7),
     "high" :> TX @@ "low" :> JNull,
     "percent_change" :> TX @@ "volume" :> TX @@ "high" :> TX @@ "low" :> TX}
QuoteBodies == {JObj(c @@ m @@ e) : c \in CloseOpts, m \in MessageOpts, e \in ExtraOpts}

Bar(c, h, l) == JObj("close" :> c @@ "high" :> h @@ "low" :> l)
BarSample ==
    {Bar(JNum(0), JNum(1), JNum(0)), Bar(JNum(1), JNum(2), JNum(1)),
     Bar(JStr(<<"2">>), JStr(<<"3">>), JStr(<<"2">>)),
     JObj("high" :> JNum(1) @@ "low" :> JNum(1)), JObj("close" :> JNum(1))}
SeriesBodies ==
    {EmptyObj, JObj("message" :> TX)}
    \cup {JObj("values" :> JList(bs)) : bs \in SeqsUpTo(BarSample, MaxBars)}

Failures == {TransportError, HttpGarbage(200)}
Answers(bodies) == Failures \cup {HttpJson(200, b) : b \in bodies}

\* the inputs of the sequential specification
Full ==
    [keys |-> {<<>>, <<"k">>},
     states |-> {<<"c", "a">>, <<"Z", "Z">>},
     coords |-> {<<38, -97>>, <<0, 0>>},
     quote_symbols |-> {<<"a", "b">>, <<"X">>, <<"E", "r", "r", "o", "r">>, <<>>},
     series_symbols |-> {<<"a", "b">>},
     days |-> -1 .. MaxDays,
     alerts |-> Answers(AlertBodies) \cup {HttpJson(500, EmptyObj)},
     point |-> Answers(PointBodies)
                \cup {HttpJson(404, JObj("properties" :> JObj("forecast" :> JStr(<<"u">>))))},
     forecast |-> Answers(ForecastBodies),
     quote |-> Answers(QuoteBodies) \cup {HttpJson(400, b) : b \in QuoteBodies},
     series |-> Answers(SeriesBodies)
                \cup {HttpJson(400, JObj("message" :> TX))}]

\* the inputs of the concurrent specification: a few of each kind
Few ==
    [keys |-> {<<>>, <<"k">>},
     states |-> {<<"c", "a">>},
     coords |-> {<<38, -97>>},
     quote_symbols |-> {<<"a", "b">>},
     series_symbols |-> {<<"a", "b">>},
     days |-> {1, 2},
     alerts |-> {TransportError, HttpJson(200, JObj("features" :> JList(<<>>))),
                 HttpJson(200, JObj("features" :> JList(<<FeatureFull>>)))},
     point |-> {TransportError,
                HttpJson(200, JObj("properties" :> JObj("forecast" :> JStr(<<"u">>))))},
     forecast |-> {HttpGarbage(200),
                   HttpJson(200, JObj("properties" :> JObj("periods" :>
                                          JList(<<Period(TX)>>))))},
     quote |-> {TransportError, HttpJson(200, JObj("close" :> JNum(5))),
                HttpJson(200, JObj("message" :> TX))},
     series |-> {HttpJson(200, JObj("values" :> JList(<<Bar(JNum(1), JNum(2), JNum(1))>>))),
                 HttpJson(200, JObj("values" :>
                     JList(<<Bar(JNum(2), JNum(2), JNum(1)), Bar(JNum(1), JNum(2), JNum(1))>>)))}]

(***************************************************************************)
(* The state machine.                                                      *)
(***************************************************************************)
Init ==
    /\ twelve_data_api_key \in Full.keys
    /\ pc = [i \in Inv |-> "idle"]
    /\ tool = [i \in Inv |-> "none"]
    /\ args = [i \in Inv |-> [none |-> TRUE]]
    /\ calls = [i \in Inv |-> <<>>]
    /\ resps = [i \in Inv |-> <<>>]
    /\ result = [i \in Inv |-> NoResult]
    /\ computed = [i \in Inv |-> FALSE]

\* the handler is entered and runs to its first await: one outbound call
Enter(i, name, a, call, wait) ==
    /\ tool' = [tool EXCEPT ![i] = name]
    /\ args' = [args EXCEPT ![i] = a]
    /\ calls' = [calls EXCEPT ![i] = Append(@, call)]
    /\ pc' = [pc EXCEPT ![i] = wait]
    /\ UNCHANGED <<twelve_data_api_key, resps, result, computed>>

\* the awaited answer w arrives and the handler runs to its end
Finish(i, w, r, c) ==
    /\ resps' = [resps EXCEPT ![i] = Append(@, w)]
    /\ result' = [result EXCEPT ![i] = r]
    /\ computed' = [computed EXCEPT ![i] = c]
    /\ pc' = [pc EXCEPT ![i] = "done"]
    /\ UNCHANGED <<twelve_data_api_key, tool, args, calls>>

get_alerts_call(i, D) ==
    /\ pc[i] = "idle"
    /\ \E state \in D.states :
            Enter(i, "get_alerts", [state |-> state], [url |-> alerts_url(state)], "await_alerts")

get_alerts_resume(i, D) ==
    /\ pc[i] = "await_alerts"
    /\ \E w \in D.alerts : Finish(i, w, get_alerts_result(make_nws_request(w)), FALSE)

get_forecast_call(i, D) ==
    /\ pc[i] = "idle"
    /\ \E c \in D.coords :
            Enter(i, "get_forecast", [latitude |-> c[1], longitude |-> c[2]],
                  [url |-> point_url(c[1], c[2])], "await_point")

get_forecast_point_resume(i, D) ==
    /\ pc[i] = "await_point"
    /\ \E w \in D.point :
        LET step == get_forecast_point(make_nws_request(w))
        IN  IF step.done
            THEN Finish(i, w, step.result, FALSE)
            ELSE /\ resps' = [resps EXCEPT ![i] = Append(@, w)]
                 /\ calls' = [calls EXCEPT ![i] = Append(@, [url |-> step.forecast_url])]
                 /\ pc' = [pc EXCEPT ![i] = "await_forecast"]
                 /\ UNCHANGED <<twelve_data_api_key, tool, args, result, computed>>

get_forecast_resume(i, D) ==
    /\ pc[i] = "await_forecast"
    /\ \E w \in D.forecast : Finish(i, w, get_forecast_result(make_nws_request(w)), FALSE)

\* get_stock_quote_call with the fault of assigning the module-level key
get_stock_quote_call_rekey(i, D) ==
    /\ pc[i] = "idle"
    /\ \E symbol \in D.quote_symbols :
            /\ tool' = [tool EXCEPT ![i] = "get_stock_quote"]
            /\ args' = [args EXCEPT ![i] = [symbol |-> symbol]]
            /\ calls' = [calls EXCEPT ![i] = Append(@,
                    [url |-> QUOTE_URL, params |-> quote_params(symbol, twelve_data_api_key)])]
            /\ pc' = [pc EXCEPT ![i] = "await_quote"]
            /\ twelve_data_api_key' = Upper(symbol)
            /\ UNCHANGED <<resps, result, computed>>

get_stock_quote_call(i, D) ==
    /\ pc[i] = "idle"
    /\ \E symbol \in D.quote_symbols :
            Enter(i, "get_stock_quote", [symbol |-> symbol],
                  [url |-> QUOTE_URL, params |-> quote_params(symbol, twelve_data_api_key)],
                  "await_quote")

get_stock_quote_resume(i, D) ==
    /\ pc[i] = "await_quote"
    /\ \E w \in D.quote :
        LET data == finance_json(w)
        IN  Finish(i, w,
                   IF data.ok THEN get_stock_quote_result(args[i].symbol, data.val)
                   ELSE Raise(data.exc),
                   FALSE)

get_stock_performance_call(i, D) ==
    /\ pc[i] = "idle"
    /\ \E symbol \in D.series_symbols, days \in D.days :
            Enter(i, "get_stock_performance", [symbol |-> symbol, days |-> days],
                  [url |-> TIME_SERIES_URL,
                   params |-> series_params(symbol, days, twelve_data_api_key)],
                  "await_perf")

get_stock_performance_resume(i, D) ==
    /\ pc[i] = "await_perf"
    /\ \E w \in D.series :
        LET data == finance_json(w)
            out == get_stock_performance_result(args[i].symbol, args[i].days, data.val)
        IN  IF data.ok THEN Finish(i, w, out.result, out.computed)
            ELSE Finish(i, w, Raise(data.exc), FALSE)

get_volatility_call(i, D) ==
    /\ pc[i] = "idle"
    /\ \E symbol \in D.series_symbols, days \in D.days :
            Enter(i, "get_volatility", [symbol |-> symbol, days |-> days],
                  [url |-> TIME_SERIES_URL,
                   params |-> series_params(symbol, days, twelve_data_api_key)],
                  "await_vol")

get_volatility_resume(i, D) ==
    /\ pc[i] = "await_vol"
    /\ \E w \in D.series :
        LET data == finance_json(w)
            out == get_volatility_result(args[i].symbol, args[i].days, data.val)
        IN  IF data.ok THEN Finish(i, w, out.result, out.computed)
            ELSE Finish(i, w, Raise(data.exc), FALSE)

Step(i, D) ==
    \/ get_alerts_call(i, D)
    \/ get_alerts_resume(i, D)
    \/ get_forecast_call(i, D)
    \/ get_forecast_point_resume(i, D)
    \/ get_forecast_resume(i, D)
    \/ get_stock_quote_call(i, D)
    \/ get_stock_quote_resume(i, D)
    \/ get_stock_performance_call(i, D)
    \/ get_stock_performance_resume(i, D)
    \/ get_volatility_call(i, D)
    \/ get_volatility_resume(i, D)

\* one invocation at a time, over the full inputs
Next == Step(1, Full)

Spec == Init /\ [][Next]_vars

\* NInv invocations interleaved at their awaits, over a few inputs each
NextConc == \E i \in Inv : Step(i, Few)

SpecConc == Init /\ [][NextConc]_vars

(***************************************************************************)
(* Vocabulary of the properties.                                           *)
(***************************************************************************)
Done(i) == pc[i] = "done"
LastResp(i) == resps[i][Len(resps[i])]
IsWeather(i) == tool[i] \in {"get_alerts", "get_forecast"}
IsFinance(i) == tool[i] \in {"get_stock_quote", "get_stock_performance", "get_volatility"}
IsSeries(i) == tool[i] \in {"get_stock_performance", "get_volatility"}
Advisories == {UNABLE_ALERTS, NO_ACTIVE_ALERTS, UNABLE_POINT, UNABLE_FORECAST}
ZERO_00 == <<"0", ".", "0", "0">>

\* the k-th answer invocation i received was a failed call
Failed(i, k) ==
    IF IsWeather(i) THEN NwsCallFailed(resps[i][k]) ELSE FinanceCallFailed(resps[i][k])

\* the finance payload invocation i parsed (its call completed and gave JSON)
HasPayload(i) == Done(i) /\ IsFinance(i) /\ ~FinanceCallFailed(LastResp(i))
Payload(i) == LastResp(i).body

(***************************************************************************)
(* C1: whatever make_nws_request yields (None, or any parsed JSON object,  *)
(* also one lacking the expected nested fields), get_alerts and            *)
(* get_forecast return a string and never raise, and after a failed call   *)
(* the string is one of the fixed advisory strings.                        *)
(***************************************************************************)
C1_WeatherNeverRaises ==
    \A i \in Inv :
        Done(i) /\ IsWeather(i) =>
            /\ result[i].kind = "return"
            /\ NwsCallFailed(LastResp(i)) => result[i].value \in Advisories

(***************************************************************************)
(* C2: whenever the upstream call completes and yields parsed JSON, the    *)
(* three finance handlers return a string and never raise, for every       *)
(* symbol, every integer days and every payload.                           *)
(***************************************************************************)
C2_FinanceNeverRaises ==
    \A i \in Inv : HasPayload(i) => result[i].kind = "return"

(***************************************************************************)
(* C3: for days >= 1, get_stock_performance and get_volatility return      *)
(* exactly "Insufficient data." whenever the payload holds fewer than days *)
(* bars (a payload without "values" holds none), and then convert no bar.  *)
(***************************************************************************)
FewerBars(i) ==
    /\ HasPayload(i) /\ IsSeries(i)
    /\ args[i].days >= 1
    /\ Len(SeriesValues(Payload(i))) < args[i].days

C3_InsufficientData ==
    \A i \in Inv :
        FewerBars(i) => result[i] = Ret(INSUFFICIENT_DATA) /\ ~computed[i]

C3_Witness ==
    \E i \in Inv :
        /\ FewerBars(i)
        /\ Len(SeriesValues(Payload(i))) >= 1
        /\ result[i] = Ret(INSUFFICIENT_DATA)

(***************************************************************************)
(* C4: get_stock_quote returns a string starting with the uppercased       *)
(* symbol and ": $" exactly when the payload has a truthy close; otherwise *)
(* it returns "Error: " followed by the payload's message, or by "Unknown" *)
(* when there is none.  The two outcomes are exhaustive and exclusive, and *)
(* a close of 0 gives the error outcome.                                   *)
(***************************************************************************)
CloseTruthy(d) == HasKey(d, "close") /\ Truthy(d.f["close"])
QuotePrefix(i) == Upper(args[i].symbol) \o T_COLON_DOLLAR

C4_QuoteOutcomes ==
    \A i \in Inv :
        HasPayload(i) /\ tool[i] = "get_stock_quote" =>
            LET d == Payload(i)
                r == result[i]
            IN  /\ r.kind = "return"
                /\ CloseTruthy(d) <=> StartsWith(r.value, QuotePrefix(i))
                /\ ~CloseTruthy(d) <=> StartsWith(r.value, ERROR_COLON)
                /\ ~CloseTruthy(d) =>
                      r.value = ERROR_PREFIX \o (IF HasKey(d, "message")
                                                 THEN d.f["message"].s ELSE UNKNOWN)
                /\ HasKey(d, "close") /\ d.f["close"] = JNum(0) =>
                      StartsWith(r.value, ERROR_COLON)

C4_Witness ==
    \E i \in Inv :
        /\ HasPayload(i) /\ tool[i] = "get_stock_quote"
        /\ HasKey(Payload(i), "close") /\ Payload(i).f["close"] = JNum(0)
        /\ args[i].symbol = <<"E", "r", "r", "o", "r">>
        /\ StartsWith(result[i].value, ERROR_COLON)

(***************************************************************************)
(* C5: get_alerts has exactly three outcomes, decided in this order: the   *)
(* fetch failed or the response lacks "features", then "Unable to fetch    *)
(* alerts or no alerts."; the features list is empty, then "No active      *)
(* alerts."; otherwise one formatted block per feature in upstream order,  *)
(* joined by the "---" line.                                               *)
(***************************************************************************)
C5_AlertsThreeOutcomes ==
    \A i \in Inv :
        Done(i) /\ tool[i] = "get_alerts" =>
            LET data == make_nws_request(LastResp(i))
                fs == data.f["features"].xs
            IN  IF data = None \/ ~HasKey(data, "features")
                THEN result[i] = Ret(UNABLE_ALERTS)
                ELSE IF fs = <<>> THEN result[i] = Ret(NO_ACTIVE_ALERTS)
                ELSE /\ result[i].kind = "return"
                     /\ \A k \in 1 .. Len(fs) : format_alert(fs[k]).kind = "return"
                     /\ result[i].value =
                            Join(SEPARATOR, [k \in 1 .. Len(fs) |-> format_alert(fs[k]).value])

(***************************************************************************)
(* C6: when both fetches of get_forecast succeed and upstream returns n    *)
(* periods, the result holds exactly the first min(5, n) periods,          *)
(* formatted, in upstream order.                                           *)
(***************************************************************************)
HasPeriods(i) ==
    /\ Done(i) /\ tool[i] = "get_forecast" /\ Len(resps[i]) = 2
    /\ ~NwsCallFailed(resps[i][1]) /\ ~NwsCallFailed(resps[i][2])
    /\ HasKey(resps[i][2].body, "properties")
    /\ HasKey(resps[i][2].body.f["properties"], "periods")
PeriodsOf(i) == resps[i][2].body.f["properties"].f["periods"].xs

C6_FirstFivePeriods ==
    \A i \in Inv :
        HasPeriods(i) =>
            LET ps == PeriodsOf(i)
                m == IF Len(ps) < 5 THEN Len(ps) ELSE 5
            IN  /\ result[i].kind = "return"
                /\ \A k \in 1 .. m : format_period(ps[k]).kind = "return"
                /\ result[i].value =
                       Join(SEPARATOR, [k \in 1 .. m |-> format_period(ps[k]).value])

(***************************************************************************)
(* C7 (as stated): within one invocation the outbound calls are sequential *)
(* and never retried.  get_alerts and the finance handlers issue exactly   *)
(* one call; get_forecast issues the point call first and the forecast     *)
(* call only after the point call has succeeded, to the URL taken from the *)
(* point response; a single failed call ends the invocation at once with a *)
(* failure-string result and no further call.                              *)
(***************************************************************************)
CallDiscipline(i) ==
    /\ Len(resps[i]) <= Len(calls[i]) /\ Len(calls[i]) <= Len(resps[i]) + 1
    /\ Done(i) => Len(calls[i]) = Len(resps[i])
    /\ pc[i] # "idle" /\ tool[i] # "get_forecast" => Len(calls[i]) = 1
    /\ tool[i] = "get_forecast" =>
          /\ Len(calls[i]) \in {1, 2}
          /\ calls[i][1].url = point_url(args[i].latitude, args[i].longitude)
          /\ Len(calls[i]) = 2 =>
                /\ ~NwsCallFailed(resps[i][1])
                /\ HasKey(resps[i][1].body, "properties")
                /\ HasKey(resps[i][1].body.f["properties"], "forecast")
                /\ calls[i][2].url = resps[i][1].body.f["properties"].f["forecast"].s

C7_FailedCallGivesString ==
    \A i \in Inv :
        /\ CallDiscipline(i)
        /\ \A k \in 1 .. Len(resps[i]) :
              Failed(i, k) =>
                  /\ Done(i) /\ Len(calls[i]) = k
                  /\ result[i].kind = "return"

(***************************************************************************)
(* C7 (amended): the same call discipline; a failed weather call ends the  *)
(* invocation at once with one of the advisory strings, and a failed       *)
(* finance call ends it at once with the client's exception raised to the  *)
(* caller; in both cases no further call is made.                          *)
(***************************************************************************)
C7_FailedCallEndsInvocation ==
    \A i \in Inv :
        /\ CallDiscipline(i)
        /\ \A k \in 1 .. Len(resps[i]) :
              Failed(i, k) =>
                  /\ Done(i) /\ Len(calls[i]) = k
                  /\ IsWeather(i) =>
                        result[i].kind = "return" /\ result[i].value \in Advisories
                  /\ IsFinance(i) => result[i].kind = "raise"

C7_Witness ==
    \E i \in Inv :
        /\ Done(i) /\ tool[i] = "get_stock_quote" /\ Len(calls[i]) = 1
        /\ Failed(i, 1)
        /\ result[i].kind = "raise"

(***************************************************************************)
(* C8: for every alert feature, format_alert emits the lines Event, Area,  *)
(* Severity, Description, Instructions in that order, and a field missing  *)
(* from the feature's properties is rendered as its fallback text, never   *)
(* as an empty string or as a rendering of null.                           *)
(***************************************************************************)
AlertLine(props, label, key, fallback) ==
    label \o (IF key \in DOMAIN props.f THEN PyStr(props.f[key]) ELSE fallback)

AlertBlock(f) ==
    LET props == f.f["properties"]
    IN  AlertLine(props, LBL_EVENT, "event", UNKNOWN)
            \o AlertLine(props, LBL_AREA, "areaDesc", UNKNOWN)
            \o AlertLine(props, LBL_SEVERITY, "severity", UNKNOWN)
            \o AlertLine(props, LBL_DESCRIPTION, "description", NO_DESCRIPTION)
            \o AlertLine(props, LBL_INSTRUCTIONS, "instruction", NO_INSTRUCTIONS)
            \o NEWLINE

\* invocation i formatted a non-empty list of features that all have properties
FormattedFeatures(i) ==
    /\ Done(i) /\ tool[i] = "get_alerts" /\ ~NwsCallFailed(LastResp(i))
    /\ HasKey(LastResp(i).body, "features")
    /\ LastResp(i).body.f["features"].xs # <<>>
    /\ \A k \in 1 .. Len(LastResp(i).body.f["features"].xs) :
          HasKey(LastResp(i).body.f["features"].xs[k], "properties")
FeaturesOf(i) == LastResp(i).body.f["features"].xs

C8_AlertFallbacks ==
    /\ \A fb \in {UNKNOWN, NO_DESCRIPTION, NO_INSTRUCTIONS} : fb # <<>> /\ fb # PY_NONE
    /\ \A i \in Inv :
          FormattedFeatures(i) =>
              result[i] = Ret(Join(SEPARATOR, [k \in 1 .. Len(FeaturesOf(i)) |->
                                                  AlertBlock(FeaturesOf(i)[k])]))

C8_Witness ==
    \E i \in Inv :
        /\ FormattedFeatures(i)
        /\ Len(FeaturesOf(i)) = 1
        /\ DOMAIN FeaturesOf(i)[1].f["properties"].f = {"areaDesc", "description"}
        /\ result[i].kind = "return"

(***************************************************************************)
(* C9: when at least days bars are returned, get_volatility labels the     *)
(* trend "upward" exactly when the newest close (first bar) is strictly    *)
(* greater than the oldest close (last bar) and "downward" otherwise, a    *)
(* tie included; a series of equal closes gives volatility 0.00 and trend  *)
(* "downward".                                                             *)
(***************************************************************************)
\* invocation i was given at least days bars, a non-empty series of closes
HasCloses(i) ==
    /\ HasPayload(i) /\ tool[i] = "get_volatility"
    /\ Len(SeriesValues(Payload(i))) >= args[i].days
    /\ SeriesValues(Payload(i)) # <<>>
    /\ FloatsOf(SeriesValues(Payload(i)), "close").ok
ClosesOf(i) == FloatsOf(SeriesValues(Payload(i)), "close").val

C9_TrendLabel ==
    \A i \in Inv :
        HasCloses(i) =>
            LET c == ClosesOf(i)
                head(label) == Upper(args[i].symbol) \o T_TREND \o label \o T_VOLATILITY
            IN  /\ result[i].kind = "return"
                /\ c[1] > c[Len(c)] <=> StartsWith(result[i].value, head(UPWARD))
                /\ c[1] <= c[Len(c)] <=> StartsWith(result[i].value, head(DOWNWARD))
                /\ (\A k \in 1 .. Len(c) : c[k] = c[1]) =>
                      result[i].value = head(DOWNWARD) \o ZERO_00

C9_Witness ==
    \E i \in Inv :
        /\ HasCloses(i)
        /\ ClosesOf(i) = <<1, 1, 1, 1>>
        /\ result[i].value = Upper(args[i].symbol) \o T_TREND \o DOWNWARD \o T_VOLATILITY \o ZERO_00

(***************************************************************************)
(* C10: invocations share no mutable state.  Under every interleaving, two *)
(* finished invocations of the same handler with the same arguments that   *)
(* received the same upstream answers issued the same calls and have the   *)
(* same result; every finance call carries the API key, and no step of any *)
(* handler changes the key.                                                *)
(***************************************************************************)
SameInputsSameResult ==
    \A i, j \in Inv :
        Done(i) /\ Done(j) /\ tool[i] = tool[j] /\ args[i] = args[j] /\ resps[i] = resps[j]
            => result[i] = result[j] /\ calls[i] = calls[j]

CallsCarryKey ==
    \A i \in Inv :
        pc[i] # "idle" /\ IsFinance(i) => calls[i][1].params.apikey = twelve_data_api_key

C10_NoSharedState ==
    /\ [](SameInputsSameResult /\ CallsCarryKey)
    /\ [][twelve_data_api_key' = twelve_data_api_key]_vars

C10_Witness ==
    \E i, j \in Inv :
        /\ i # j /\ Done(i) /\ Done(j)
        /\ tool[i] = "get_stock_quote" /\ tool[j] = "get_stock_quote"
        /\ args[i] = args[j] /\ resps[i] = resps[j]
        /\ result[i].kind = "return"
====
